---- MODULE Spec2Model ----
(***************************************************************************)
(* DuoChat / Checkmate: the executor-verifier refinement loop.             *)
(*                                                                         *)
(* Two copies of the orchestrator live in the repository:                  *)
(*   src/unnamed/part_001  createCheckMate(executor, verifier, rounds = 3) *)
(*   src/src/duochat.ts    createDuoChat(executor, verifier)               *)
(* Their prompt builders and perform() are the same code; they differ in   *)
(* the constructor only.                                                   *)
(*                                                                         *)
(* Text is modelled as a sequence of tokens: a token is a newline, a       *)
(* triple backtick, a phrase of a template, or a piece of free text.       *)
(* String concatenation is \o, so two texts with the same tokens are the   *)
(* same string.                                                            *)
(***************************************************************************)
EXTENDS Integers, Sequences, FiniteSets, TLC

\* ------------------------------------------------------------------ bounds
\* Largest refinementRounds a caller passes or assigns.
MaxRounds == 3
\* Most pieces of text the two compared input tuples of a prompt hold together.
MaxPieces == 2
\* the rounds of an instance on which two invocations overlap
MaxOverlapRounds == 2

\* ------------------------------------------------------- program constants
\* part_001:24 `refinementRounds = 3`
DefaultRefinementRounds == 3
\* part_001:29 `maxAttempts: refinementRounds + 2`
AttemptSlack == 2
\* duochat.ts:84 `refinementRounds: 3`
DuoChatRefinementRounds == 3
\* duochat.ts:85 `maxAttempts: 5`
DuoChatMaxAttempts == 5

\* ------------------------------------------------------------------- text
NL == "\n"
\* the three backticks that fence an embedded input
Fence == "<3 backticks>"

\* newline, fence, newline: what every template puts before and after an embedded input
Open == <<NL, Fence, NL>>
Close == <<NL, Fence, NL>>

createExecuteInitialPrompt(taskDescription) ==
    <<"As the task executor, your job is to complete the task described below:">>
        \o Open \o taskDescription \o Close
        \o <<"Generate a solution accordingly.">>

createExecuteFollowupPrompt(taskDescription, previousExecutorSolution, verifierFeedback) ==
    <<"As the task executor, based on the verifier's feedback, refine the solution for the following task:">>
        \o Open \o taskDescription \o Close
        \o <<"Your previous solution was: ">>
        \o Open \o previousExecutorSolution \o Close
        \o <<"The verifier's feedback on your previous solution was: ">>
        \o Open \o verifierFeedback \o Close
        \o <<"Please provide an updated solution accordingly.">>

createVerifyInitialPrompt(taskDescription, executorSolution) ==
    <<"As the task verifier, critically review the solution for the task described below:">>
        \o Open \o taskDescription \o Close
        \o <<"The provided solution is: ">>
        \o Open \o executorSolution \o Close
        \o <<"Highlight any areas for improvement.">>

createVerifyFollowupPrompt(taskDescription, executorSolution) ==
    <<"As the task verifier, based on the refined solution, please review it again for the following task:">>
        \o Open \o taskDescription \o Close
        \o <<"The updated solution is: ">>
        \o Open \o executorSolution \o Close
        \o <<"Identify any remaining areas that need further refinement.">>

\* ------------------------------------------------------------ constructors
\* (mutant) one attempt of slack instead of two
createCheckMate_OneSpare(rest) ==
    LET refinementRoundsArg == IF rest = <<>> THEN DefaultRefinementRounds ELSE rest[1]
    IN  [refinementRounds |-> refinementRoundsArg,
         maxAttempts      |-> refinementRoundsArg + 1,
         debug            |-> FALSE]

\* createCheckMate(executor, verifier, refinementRounds = 3). rest is the list
\* of arguments after the two models: empty (the parameter is undefined and
\* takes its default) or one number.
createCheckMate(rest) ==
    LET refinementRoundsArg == IF rest = <<>> THEN DefaultRefinementRounds ELSE rest[1]
    IN  [refinementRounds |-> refinementRoundsArg,
         maxAttempts      |-> refinementRoundsArg + AttemptSlack,
         debug            |-> FALSE]

createDuoChat ==
    [refinementRounds |-> DuoChatRefinementRounds,
     maxAttempts      |-> DuoChatMaxAttempts,
     debug            |-> FALSE]

\* ------------------------------------------------------------------ inputs
\* a caller may pass any number: zero and a negative one are kept in
RoundsArgs == (-1)..MaxRounds
AttemptsArgs == 0..(MaxRounds + AttemptSlack)
ConstructorCalls == {createDuoChat} \cup {createCheckMate(rest) : rest \in {<<>>} \cup {<<n>> : n \in RoundsArgs}}
Tasks == {<<"T">>}
Solutions == {<<"E1">>, <<"E2">>}
Feedbacks == {<<"V1">>, <<"V2">>}
\* one answer of each model, where which answer it is makes no difference
OneSolution == {<<"E1">>}
OneFeedback == {<<"V1">>}

\* ------------------------------------------------------------------ state
VARIABLES
    \* the orchestrator instance (part_001:25-36, duochat.ts:81-92)
    refinementRounds, maxAttempts, debug,
    \* one invocation of perform: where it is, its parameter and its locals
    pc, taskDescription, recordHistory, attempt,
    executorPrompt, executorSolution, verifierPrompt,
    completion, result,
    \* the two models' calls of this invocation, in the order they were issued
    executorCalls, verifierCalls,
    \* lines written to the console by logForDebug / warnForDebug
    console,
    \* the prompt builders applied to two input tuples (SpecPrompt)
    op, argsA, argsB, promptA, promptB, pieces,
    \* a second invocation of perform on the same instance, under way at the
    \* same time (SpecTwo): its parameter, its locals and its calls
    other

config == <<refinementRounds, maxAttempts, debug>>
locals == <<executorPrompt, executorSolution, verifierPrompt>>
run == <<pc, taskDescription, recordHistory, attempt, locals, completion, result>>
calls == <<executorCalls, verifierCalls>>
builder == <<op, argsA, argsB, promptA, promptB, pieces>>
vars == <<config, run, calls, console, builder, other>>

NoText == <<>>
NoCompletion == [type |-> "normal", value |-> NoText]
\* how perform ended: kind is "executorSolution" (the return inside the loop),
\* "lastRecord" (the return after the loop) or "error" (the throw, whose message
\* holds the number of attempts)
NoResult == [kind |-> "none", value |-> NoText, attempts |-> 0]
NoArgs == [taskDescription |-> NoText, executorSolution |-> NoText, verifierFeedback |-> NoText]

Last(s) == s[Len(s)]

\* a call to model.complete(prompt): pending until it resolves or rejects
Call(prompt) == [prompt |-> prompt, state |-> "pending", out |-> NoText]
Settle(log, state, out) == [log EXCEPT ![Len(log)] = [@ EXCEPT !.state = state, !.out = out]]

\* logForDebug / warnForDebug: n lines, written only when debug is set
Emit(n) == console' = IF debug THEN console + n ELSE console

\* ---------------------------------------------------- the pieces of perform
\* (mutant) the attempt test off by one: `attempt <= maxAttempts`
LoopCondition_OneMore(history, attempts, rounds, limit) ==
    Len(history) < rounds /\ attempts <= limit

\* the while condition
LoopCondition(history, attempts, rounds, limit) ==
    Len(history) < rounds /\ attempts < limit

\* (mutant) the followup prompt forgotten: every round asks as if it were the first
ExecutorPromptFor_AlwaysInitial(task, history) == createExecuteInitialPrompt(task)

\* the executor prompt of a round
ExecutorPromptFor(task, history) ==
    IF Len(history) = 0
    THEN createExecuteInitialPrompt(task)
    ELSE createExecuteFollowupPrompt(task, Last(history).executorSolution,
                                     Last(history).verifierFeedback)

\* (mutant) the final round taken to be the one after refinementRounds records
IsFinalRound_Late(history, rounds) == Len(history) = rounds

\* (mutant) the final round never taken to be the first one
IsFinalRound_NotFirst(history, rounds) == Len(history) = rounds - 1 /\ Len(history) > 0

\* `recordHistory.length === refinementRounds - 1`: the round that returns
IsFinalRound(history, rounds) == Len(history) = rounds - 1

\* (mutant) the verifier is shown nothing of what the executor answered
VerifierPromptFor_NoSolution(task, history, solution) ==
    IF Len(history) = 0
    THEN createVerifyInitialPrompt(task, NoText)
    ELSE createVerifyFollowupPrompt(task, NoText)

\* the verifier prompt of a round
VerifierPromptFor(task, history, solution) ==
    IF Len(history) = 0
    THEN createVerifyInitialPrompt(task, solution)
    ELSE createVerifyFollowupPrompt(task, solution)

\* (mutant) the record keeps the executor prompt where the solution belongs
RoundRecord_PromptAsSolution(ePrompt, eSolution, vPrompt, vFeedback) ==
    [executorPrompt   |-> ePrompt,
     executorSolution |-> ePrompt,
     verifierPrompt   |-> vPrompt,
     verifierFeedback |-> vFeedback]

\* the record pushed when both calls have resolved
RoundRecord(ePrompt, eSolution, vPrompt, vFeedback) ==
    [executorPrompt   |-> ePrompt,
     executorSolution |-> eSolution,
     verifierPrompt   |-> vPrompt,
     verifierFeedback |-> vFeedback]

\* (mutant) `attempt++` forgotten
AttemptAfter_Forgotten(attempts) == attempts

\* (mutant) an attempt counted twice
AttemptAfter_Twice(attempts) == attempts + 2

\* `attempt++` of the finally block
AttemptAfter(attempts) == attempts + 1

\* (mutant) the first record returned instead of the last
AfterLoop_FirstRecord(history, attempts) ==
    IF Len(history) = 0
    THEN [kind |-> "error", value |-> NoText, attempts |-> attempts]
    ELSE [kind |-> "lastRecord", value |-> history[1].executorSolution, attempts |-> 0]

\* (mutant) leaving the loop after any attempt counted as a failure
AfterLoop_ThrowsWhenShort(history, attempts) ==
    IF Len(history) = 0 \/ attempts > 0
    THEN [kind |-> "error", value |-> NoText, attempts |-> attempts]
    ELSE [kind |-> "lastRecord", value |-> Last(history).executorSolution, attempts |-> 0]

\* what perform ends with once the loop is left
AfterLoop(history, attempts) ==
    IF Len(history) = 0
    THEN [kind |-> "error", value |-> NoText, attempts |-> attempts]
    ELSE [kind |-> "lastRecord", value |-> Last(history).executorSolution, attempts |-> 0]

\* (mutant) the history and the attempt counter kept on the instance: an
\* invocation goes on from where the one under way stands
FreshRun_OnInstance(task) ==
    [pc |-> "while", taskDescription |-> task,
     recordHistory |-> recordHistory, attempt |-> attempt,
     executorPrompt |-> NoText, executorSolution |-> NoText, verifierPrompt |-> NoText,
     completion |-> NoCompletion, result |-> NoResult,
     executorCalls |-> <<>>, verifierCalls |-> <<>>]

\* what an invocation of perform starts with: `const recordHistory = []` and
\* `let attempt = 0` are locals of the call
FreshRun(task) ==
    [pc |-> "while", taskDescription |-> task,
     recordHistory |-> <<>>, attempt |-> 0,
     executorPrompt |-> NoText, executorSolution |-> NoText, verifierPrompt |-> NoText,
     completion |-> NoCompletion, result |-> NoResult,
     executorCalls |-> <<>>, verifierCalls |-> <<>>]

\* perform not called a second time
NotCalled == [FreshRun(NoText) EXCEPT !.pc = "idle"]

\* ------------------------------------------------------------------- Init
Init ==
    /\ \E instance \in ConstructorCalls :
          /\ refinementRounds = instance.refinementRounds
          /\ maxAttempts = instance.maxAttempts
          /\ debug = instance.debug
    /\ pc = "idle"
    /\ taskDescription = NoText
    /\ recordHistory = <<>>
    /\ attempt = 0
    /\ executorPrompt = NoText
    /\ executorSolution = NoText
    /\ verifierPrompt = NoText
    /\ completion = NoCompletion
    /\ result = NoResult
    /\ executorCalls = <<>>
    /\ verifierCalls = <<>>
    /\ console = 0
    /\ op = "none"
    /\ argsA = NoArgs
    /\ argsB = NoArgs
    /\ promptA = NoText
    /\ promptB = NoText
    /\ pieces = 0
    /\ other = NotCalled

\* ------------------------------------------------- the caller, between runs
\* `duochat.refinementRounds = n`: the fields of the instance are public
SetRefinementRounds(n) ==
    /\ pc = "idle"
    /\ refinementRounds' = n
    /\ UNCHANGED <<maxAttempts, debug, run, calls, console, builder, other>>

SetMaxAttempts(n) ==
    /\ pc = "idle"
    /\ maxAttempts' = n
    /\ UNCHANGED <<refinementRounds, debug, run, calls, console, builder, other>>

\* `duochat.debug = true`
SetDebug(b) ==
    /\ pc = "idle"
    /\ debug' = b
    /\ UNCHANGED <<refinementRounds, maxAttempts, run, calls, console, builder, other>>

\* ----------------------------------------------------------------- perform
\* perform(taskDescription) is called: a fresh history and attempt counter
Perform(task) ==
    /\ pc \in {"idle", "returned", "thrown"}
    /\ pc' = "while"
    /\ taskDescription' = task
    /\ recordHistory' = <<>>
    /\ attempt' = 0
    /\ executorPrompt' = NoText
    /\ executorSolution' = NoText
    /\ verifierPrompt' = NoText
    /\ completion' = NoCompletion
    /\ result' = NoResult
    /\ executorCalls' = <<>>
    /\ verifierCalls' = <<>>
    /\ console' = 0
    /\ UNCHANGED <<config, builder, other>>

\* the loop condition holds: the round's executor prompt is built, logged and sent
StartAttempt ==
    /\ pc = "while"
    /\ LoopCondition(recordHistory, attempt, refinementRounds, maxAttempts)
    /\ executorPrompt' = ExecutorPromptFor(taskDescription, recordHistory)
    /\ Emit(1)
    /\ executorCalls' = Append(executorCalls, Call(executorPrompt'))
    /\ pc' = "executor"
    /\ UNCHANGED <<config, taskDescription, recordHistory, attempt, executorSolution,
                   verifierPrompt, completion, result, verifierCalls, builder, other>>

\* the loop condition fails: throw with nothing recorded, else the last record's solution
LeaveLoop ==
    /\ pc = "while"
    /\ ~LoopCondition(recordHistory, attempt, refinementRounds, maxAttempts)
    /\ result' = AfterLoop(recordHistory, attempt)
    /\ pc' = IF result'.kind = "error" THEN "thrown" ELSE "returned"
    /\ UNCHANGED <<config, taskDescription, recordHistory, attempt, locals, completion,
                   calls, console, builder, other>>

\* executor.complete resolves: return in the final round, else ask the verifier
ExecutorResolves(solution) ==
    /\ pc = "executor"
    /\ executorCalls' = Settle(executorCalls, "resolved", solution)
    /\ executorSolution' = solution
    /\ IF IsFinalRound(recordHistory, refinementRounds)
       THEN /\ Emit(1)
            /\ completion' = [type |-> "return", value |-> solution]
            /\ pc' = "finally"
            /\ UNCHANGED <<verifierPrompt, verifierCalls>>
       ELSE /\ Emit(2)
            /\ verifierPrompt' = VerifierPromptFor(taskDescription, recordHistory, solution)
            /\ verifierCalls' = Append(verifierCalls, Call(verifierPrompt'))
            /\ pc' = "verifier"
            /\ UNCHANGED completion
    /\ UNCHANGED <<config, taskDescription, recordHistory, attempt, executorPrompt,
                   result, builder, other>>

\* (mutant) with debug set the catch block warns and rethrows
ExecutorRejects_RethrowsInDebug ==
    /\ pc = "executor"
    /\ executorCalls' = Settle(executorCalls, "rejected", NoText)
    /\ Emit(1)
    /\ IF debug
       THEN /\ pc' = "thrown"
            /\ result' = [kind |-> "error", value |-> NoText, attempts |-> attempt]
       ELSE /\ pc' = "finally"
            /\ result' = result
    /\ UNCHANGED <<config, taskDescription, recordHistory, attempt, locals, completion,
                   verifierCalls, builder, other>>

\* executor.complete rejects: the catch block warns
ExecutorRejects ==
    /\ pc = "executor"
    /\ executorCalls' = Settle(executorCalls, "rejected", NoText)
    /\ Emit(1)
    /\ pc' = "finally"
    /\ UNCHANGED <<config, taskDescription, recordHistory, attempt, locals, completion,
                   result, verifierCalls, builder, other>>

\* verifier.complete resolves: the round is recorded
VerifierResolves(feedback) ==
    /\ pc = "verifier"
    /\ verifierCalls' = Settle(verifierCalls, "resolved", feedback)
    /\ Emit(1)
    /\ recordHistory' = Append(recordHistory,
            RoundRecord(executorPrompt, executorSolution, verifierPrompt, feedback))
    /\ pc' = "finally"
    /\ UNCHANGED <<config, taskDescription, attempt, locals, completion, result,
                   executorCalls, builder, other>>

\* (mutant) the catch block records the round without feedback
VerifierRejects_Records ==
    /\ pc = "verifier"
    /\ verifierCalls' = Settle(verifierCalls, "rejected", NoText)
    /\ Emit(1)
    /\ recordHistory' = Append(recordHistory,
            [executorPrompt   |-> executorPrompt,
             executorSolution |-> executorSolution,
             verifierPrompt   |-> verifierPrompt,
             verifierFeedback |-> NoText])
    /\ pc' = "finally"
    /\ UNCHANGED <<config, taskDescription, attempt, locals, completion, result,
                   executorCalls, builder, other>>

\* verifier.complete rejects: the catch block warns, nothing is recorded
VerifierRejects ==
    /\ pc = "verifier"
    /\ verifierCalls' = Settle(verifierCalls, "rejected", NoText)
    /\ Emit(1)
    /\ pc' = "finally"
    /\ UNCHANGED <<config, taskDescription, recordHistory, attempt, locals, completion,
                   result, executorCalls, builder, other>>

\* (mutant) `attempt++` placed in the catch block: only a failed attempt counts
Finally_CountsFailuresOnly ==
    /\ pc = "finally"
    /\ attempt' = IF \/ Last(executorCalls).state = "rejected"
                     \/ /\ completion.type = "normal"
                        /\ Last(verifierCalls).state = "rejected"
                  THEN attempt + 1 ELSE attempt
    /\ IF completion.type = "return"
       THEN /\ result' = [kind |-> "executorSolution", value |-> completion.value,
                           attempts |-> 0]
            /\ pc' = "returned"
       ELSE /\ result' = result
            /\ pc' = "while"
    /\ completion' = NoCompletion
    /\ executorPrompt' = NoText
    /\ executorSolution' = NoText
    /\ verifierPrompt' = NoText
    /\ UNCHANGED <<config, taskDescription, recordHistory, calls, console, builder, other>>

\* the finally block, then the pending return or the next test of the loop
Finally ==
    /\ pc = "finally"
    /\ attempt' = AttemptAfter(attempt)
    /\ IF completion.type = "return"
       THEN /\ result' = [kind |-> "executorSolution", value |-> completion.value,
                           attempts |-> 0]
            /\ pc' = "returned"
       ELSE /\ result' = result
            /\ pc' = "while"
    /\ completion' = NoCompletion
    /\ executorPrompt' = NoText
    /\ executorSolution' = NoText
    /\ verifierPrompt' = NoText
    /\ UNCHANGED <<config, taskDescription, recordHistory, calls, console, builder, other>>

Next ==
    \/ \E n \in RoundsArgs : SetRefinementRounds(n)
    \/ \E n \in AttemptsArgs : SetMaxAttempts(n)
    \/ \E b \in BOOLEAN : SetDebug(b)
    \/ \E task \in Tasks : Perform(task)
    \/ StartAttempt
    \/ LeaveLoop
    \/ \E solution \in Solutions : ExecutorResolves(solution)
    \/ ExecutorRejects
    \/ \E feedback \in Feedbacks : VerifierResolves(feedback)
    \/ VerifierRejects
    \/ Finally

Spec == Init /\ [][Next]_vars

\* ------------------------------------------------------ what a run has done
Terminal == pc \in {"returned", "thrown"}
Indices(log) == 1..Len(log)
Rejected(log) == {i \in Indices(log) : log[i].state = "rejected"}
Resolved(log) == {i \in Indices(log) : log[i].state = "resolved"}
NoneRejected(log) == Rejected(log) = {}
NoneResolved(log) == Resolved(log) = {}
\* an attempt fails when its executor call or its verifier call rejects
FailedAttempts == Cardinality(Rejected(executorCalls)) + Cardinality(Rejected(verifierCalls))

\* ---------------------------------------------------------------- the claims
\* C1: with refinementRounds = N >= 1 and maxAttempts = N + 2, a run in which
\* no call fails makes N executor calls and N - 1 verifier calls, ends with
\* N - 1 records pairing the i-th executor output with the i-th verifier
\* output, and returns the output of the N-th executor call.
C1_AllSucceed ==
    (/\ Terminal
     /\ refinementRounds >= 1
     /\ maxAttempts = refinementRounds + 2
     /\ NoneRejected(executorCalls)
     /\ NoneRejected(verifierCalls))
    => /\ pc = "returned"
       /\ Len(executorCalls) = refinementRounds
       /\ Len(verifierCalls) = refinementRounds - 1
       /\ Len(recordHistory) = refinementRounds - 1
       /\ \A i \in 1..(refinementRounds - 1) :
             /\ recordHistory[i].executorSolution = executorCalls[i].out
             /\ recordHistory[i].verifierFeedback = verifierCalls[i].out
             /\ recordHistory[i].executorPrompt = executorCalls[i].prompt
             /\ recordHistory[i].verifierPrompt = verifierCalls[i].prompt
       /\ result.value = executorCalls[refinementRounds].out

\* the example of the specification with N = 3: E1, E2, E1 and V1, V2
C1_Witness ==
    /\ pc = "returned"
    /\ refinementRounds = 3
    /\ maxAttempts = 5
    /\ NoneRejected(executorCalls)
    /\ NoneRejected(verifierCalls)
    /\ Len(executorCalls) = 3
    /\ executorCalls[2].out # executorCalls[3].out
    /\ verifierCalls[1].out # verifierCalls[2].out
    /\ result.value = executorCalls[3].out

\* C2: with refinementRounds >= 1, whatever the calls do, a run goes through
\* the loop at most maxAttempts times: the attempt counter, the executor
\* calls and the verifier calls each number at most maxAttempts.
C2_AtMostMaxAttempts ==
    refinementRounds >= 1 =>
        /\ attempt <= maxAttempts
        /\ Len(executorCalls) <= maxAttempts
        /\ Len(verifierCalls) <= maxAttempts

C2_Witness ==
    /\ Terminal
    /\ refinementRounds >= 1
    /\ maxAttempts >= 3
    /\ attempt = maxAttempts
    /\ Len(executorCalls) = maxAttempts
    /\ Len(verifierCalls) = maxAttempts

\* C3 as stated: a run in which every executor call fails ends by throwing
\* after exactly maxAttempts attempts, with maxAttempts executor calls, no
\* verifier call and an empty history.
C3_ExecutorAlwaysFails_AnyRounds ==
    (Terminal /\ NoneResolved(executorCalls))
    => /\ pc = "thrown"
       /\ result.attempts = maxAttempts
       /\ Len(executorCalls) = maxAttempts
       /\ Len(verifierCalls) = 0
       /\ recordHistory = <<>>

\* C3 as amended: the same, for refinementRounds >= 1.
C3_ExecutorAlwaysFails ==
    (Terminal /\ refinementRounds >= 1 /\ NoneResolved(executorCalls))
    => /\ pc = "thrown"
       /\ result.attempts = maxAttempts
       /\ attempt = maxAttempts
       /\ Len(executorCalls) = maxAttempts
       /\ Len(verifierCalls) = 0
       /\ recordHistory = <<>>

C3_Witness ==
    /\ pc = "thrown"
    /\ refinementRounds >= 1
    /\ maxAttempts = refinementRounds + 2
    /\ Len(executorCalls) = maxAttempts
    /\ NoneResolved(executorCalls)

\* C4: with refinementRounds > 1, as long as no executor call has failed and
\* no verifier call has succeeded, the history is empty, and such a run ends
\* by throwing after exactly maxAttempts attempts.
C4_VerifierAlwaysFails ==
    (/\ refinementRounds > 1
     /\ NoneRejected(executorCalls)
     /\ NoneResolved(verifierCalls))
    => /\ recordHistory = <<>>
       /\ Terminal =>
            /\ pc = "thrown"
            /\ result.attempts = maxAttempts
            /\ attempt = maxAttempts
            /\ Len(executorCalls) = maxAttempts
            /\ Len(verifierCalls) = maxAttempts

C4_Witness ==
    /\ pc = "thrown"
    /\ refinementRounds > 1
    /\ maxAttempts >= 3
    /\ NoneRejected(executorCalls)
    /\ NoneResolved(verifierCalls)
    /\ Len(verifierCalls) = maxAttempts

\* C5 as stated: with refinementRounds = 1 every run makes exactly one
\* executor call and no verifier call, and returns that call's output
\* (checked on the instances createCheckMate(executor, verifier, 1) builds).
C5_SingleRound_EveryRun ==
    (Terminal /\ refinementRounds = 1 /\ maxAttempts = 3)
    => /\ pc = "returned"
       /\ Len(executorCalls) = 1
       /\ Len(verifierCalls) = 0
       /\ result.value = executorCalls[1].out

\* C5 as amended: with refinementRounds = 1 no run makes a verifier call, and
\* a run whose first executor call succeeds makes no other executor call and
\* returns that call's output directly, with nothing recorded.
C5_SingleRound ==
    refinementRounds = 1
    => /\ Len(verifierCalls) = 0
       /\ (Terminal /\ 1 \in Resolved(executorCalls))
          => /\ pc = "returned"
             /\ Len(executorCalls) = 1
             /\ result.value = executorCalls[1].out
             /\ recordHistory = <<>>

C5_Witness ==
    /\ refinementRounds = 1
    /\ maxAttempts = 3
    /\ pc = "returned"
    /\ 1 \in Resolved(executorCalls)
    /\ result.value = executorCalls[1].out

\* the run's last attempt was the final round answered by the executor: that
\* executor call resolved and no verifier call followed it
FinalRoundAnswered == Len(verifierCalls) < Cardinality(Resolved(executorCalls))

\* C6 as stated: a run that ends with the attempt counter at maxAttempts and a
\* non-empty history returns the last record's executorSolution (checked on
\* the instances the constructors build, maxAttempts = refinementRounds + 2).
C6_ExhaustedReturnsLastRecord_Always ==
    (/\ Terminal
     /\ maxAttempts = refinementRounds + 2
     /\ attempt = maxAttempts
     /\ recordHistory # <<>>)
    => /\ pc = "returned"
       /\ result.value = Last(recordHistory).executorSolution

\* C6 as amended: a run that ends with the attempt counter at maxAttempts and
\* a non-empty history, and whose last attempt was not the final round
\* answered by the executor, does not throw: it returns the last record's
\* executorSolution, whatever later executor calls produced.
C6_ExhaustedReturnsLastRecord ==
    (/\ Terminal
     /\ attempt = maxAttempts
     /\ recordHistory # <<>>
     /\ ~FinalRoundAnswered)
    => /\ pc = "returned"
       /\ result.kind = "lastRecord"
       /\ result.value = Last(recordHistory).executorSolution

\* a later executor call resolved with another solution and was discarded
\* because its verifier call rejected
C6_Witness ==
    /\ pc = "returned"
    /\ attempt = maxAttempts
    /\ maxAttempts = refinementRounds + 2
    /\ recordHistory # <<>>
    /\ ~FinalRoundAnswered
    /\ Last(executorCalls).state = "resolved"
    /\ Last(verifierCalls).state = "rejected"
    /\ Last(executorCalls).out # result.value

\* C7: with refinementRounds >= 1, perform throws exactly when every one of
\* the maxAttempts attempts failed (so nothing was recorded); one rejected
\* call alone never ends the run, and the error reports the attempt counter,
\* which is maxAttempts.
C7_ThrowsOnlyWhenAllFailed ==
    refinementRounds >= 1
    => /\ Terminal =>
            (pc = "thrown" <=> (/\ Len(executorCalls) = maxAttempts
                                /\ FailedAttempts = maxAttempts))
       /\ pc = "thrown" =>
            /\ recordHistory = <<>>
            /\ result.kind = "error"
            /\ result.attempts = attempt
            /\ attempt = maxAttempts
       /\ (FailedAttempts > 0 /\ FailedAttempts < maxAttempts) => pc # "thrown"

\* thrown after five failures of both kinds
C7_Witness ==
    /\ pc = "thrown"
    /\ maxAttempts = 5
    /\ result.attempts = 5
    /\ Rejected(executorCalls) # {}
    /\ Rejected(verifierCalls) # {}

\* perform is running
InRun == pc \in {"while", "executor", "verifier", "finally"}

\* C8: within a run the history changes only when the verifier call of an
\* attempt resolves after the executor call of that attempt resolved, and
\* then by one record appended, holding the prompts and outputs of those two
\* calls; a step in which a call rejects leaves the history as it was.
C8_HistoryAppendOnly ==
    [][InRun =>
        /\ recordHistory' # recordHistory =>
              /\ pc = "verifier"
              /\ Last(executorCalls).state = "resolved"
              /\ Last(verifierCalls).state = "pending"
              /\ Last(verifierCalls').state = "resolved"
              /\ recordHistory' = Append(recordHistory,
                    [executorPrompt   |-> Last(executorCalls).prompt,
                     executorSolution |-> Last(executorCalls).out,
                     verifierPrompt   |-> Last(verifierCalls').prompt,
                     verifierFeedback |-> Last(verifierCalls').out])
        /\ (Rejected(executorCalls') # Rejected(executorCalls)
             \/ Rejected(verifierCalls') # Rejected(verifierCalls)) =>
              recordHistory' = recordHistory
    ]_vars

\* two records, after an attempt whose executor succeeded and verifier failed
C8_Witness ==
    /\ Len(recordHistory) = 2
    /\ Rejected(verifierCalls) # {}
    /\ Rejected(executorCalls) # {}
    /\ Len(executorCalls) = 4

\* C10: every instance is constructed with maxAttempts = refinementRounds + 2,
\* refinementRounds being 3 (and maxAttempts 5) when the caller gives none,
\* and no step of a run of perform changes either field.
C10_ConfigFixed ==
    /\ maxAttempts = refinementRounds + 2
    /\ createCheckMate(<<>>).refinementRounds = 3
    /\ createCheckMate(<<>>).maxAttempts = 5
    /\ createDuoChat.refinementRounds = 3
    /\ createDuoChat.maxAttempts = 5
    /\ [][(pc # "idle" \/ pc' # "idle") =>
            /\ refinementRounds' = refinementRounds
            /\ maxAttempts' = maxAttempts]_vars

\* a default instance after a run that used all five attempts
C10_Witness ==
    /\ Terminal
    /\ refinementRounds = 3
    /\ maxAttempts = 5
    /\ attempt = 5

\* C11: in every state of a run with refinementRounds >= 1 the history holds
\* at most refinementRounds records. (It stays one below: the final round
\* returns the executor's solution without recording it.)
C11_HistoryWithinRounds ==
    refinementRounds >= 1 =>
        /\ Len(recordHistory) <= refinementRounds
        /\ Len(recordHistory) <= refinementRounds - 1

\* the last intermediate round of a default instance has been recorded
C11_Witness ==
    /\ InRun
    /\ refinementRounds = 3
    /\ Len(recordHistory) = 2

\* C12 as stated: in every state the attempt counter is at least the length
\* of the history, the state between the push of a record and the `attempt++`
\* of that attempt included.
C12_AttemptCoversHistory_Always == attempt >= Len(recordHistory)

\* C12 as amended: the attempt counter is at least the length of the history
\* in every state but the one between the push of a record and the
\* `attempt++` of that attempt, where the history may be one longer; and the
\* counter never decreases during a run.
C12_AttemptCoversHistory ==
    /\ [](/\ pc # "finally" => attempt >= Len(recordHistory)
          /\ pc = "finally" => attempt + 1 >= Len(recordHistory))
    /\ [][InRun => attempt' >= attempt]_vars

\* a record has been pushed and the attempt is not yet counted
C12_Witness ==
    /\ pc = "finally"
    /\ Len(recordHistory) = attempt + 1

\* C13 as stated: in the terminal state of every run the history holds
\* refinementRounds records or the attempt counter equals maxAttempts.
C13_EndsAtRoundsOrAttempts ==
    Terminal => (Len(recordHistory) = refinementRounds \/ attempt = maxAttempts)

\* C13 as amended: a run ends either by the return of the final round (the
\* executor call made with refinementRounds - 1 records succeeded, whatever
\* the attempt counter), or by leaving the loop, with the attempt counter at
\* maxAttempts or (only when refinementRounds <= 0) with at least
\* refinementRounds records; the history never holds refinementRounds
\* records when refinementRounds >= 1.
C13_EndsAtFinalRoundOrAttempts ==
    Terminal =>
        /\ \/ /\ result.kind = "executorSolution"
              /\ Len(recordHistory) = refinementRounds - 1
              /\ Last(executorCalls).state = "resolved"
              /\ attempt <= maxAttempts
           \/ /\ result.kind # "executorSolution"
              /\ attempt = maxAttempts
              /\ Len(recordHistory) < refinementRounds
           \/ /\ result.kind = "error"
              /\ refinementRounds <= 0
              /\ attempt = 0
        /\ refinementRounds >= 1 => Len(recordHistory) # refinementRounds

\* a run that returned from the final round with attempts to spare
C13_Witness ==
    /\ pc = "returned"
    /\ result.kind = "executorSolution"
    /\ refinementRounds = 3
    /\ Len(recordHistory) = 2
    /\ attempt = 3
    /\ maxAttempts = 5

\* C14: whatever the calls do, a verifier call is made only with fewer than
\* refinementRounds - 1 records; an executor call that resolves with
\* refinementRounds - 1 records makes perform return its output, and no
\* verifier call follows it.
C14_NoVerifierInFinalRound ==
    /\ [](/\ pc = "verifier" => Len(recordHistory) < refinementRounds - 1
          /\ Len(verifierCalls) <= Cardinality(Resolved(executorCalls))
          /\ (Terminal /\ result.kind = "executorSolution") =>
                /\ result.value = Last(executorCalls).out
                /\ Len(verifierCalls) = Cardinality(Resolved(executorCalls)) - 1)
    /\ [][(/\ pc = "executor"
            /\ Len(recordHistory) = refinementRounds - 1
            /\ Last(executorCalls').state = "resolved")
           => /\ verifierCalls' = verifierCalls
              /\ pc' = "finally"
              /\ completion' = [type |-> "return", value |-> Last(executorCalls').out]]_vars
    /\ [][(pc = "finally" /\ completion.type = "return")
           => /\ pc' = "returned"
              /\ result'.value = completion.value
              /\ calls' = calls]_vars

\* the final round answered after failures of both kinds
C14_Witness ==
    /\ pc = "returned"
    /\ result.kind = "executorSolution"
    /\ Len(recordHistory) = 2
    /\ Rejected(verifierCalls) # {}
    /\ Rejected(executorCalls) # {}

\* the verifier call that followed the i-th executor call, if that one resolved
\* in a round other than the final one: by position among the verifier calls
VerifierOf(i) == Cardinality({j \in Resolved(executorCalls) : j <= i})

\* the attempt of the i-th executor call failed: that call rejected, or the
\* verifier call that followed it did
AttemptFailed(i) ==
    \/ executorCalls[i].state = "rejected"
    \/ /\ executorCalls[i].state = "resolved"
       /\ VerifierOf(i) <= Len(verifierCalls)
       /\ verifierCalls[VerifierOf(i)].state = "rejected"

Occurs(token, text) == \E k \in 1..Len(text) : text[k] = token

\* C15: every executor call gets the initial prompt when the history is empty
\* and otherwise the followup prompt built from the last record's solution
\* and feedback; so the call after a failed attempt gets the prompt of the
\* failed attempt, and what the executor answered in a failed attempt shows
\* in no executor prompt and in no result.
C15_ExecutorPromptFromLastRecord ==
    /\ pc = "executor" =>
          Last(executorCalls).prompt =
            IF recordHistory = <<>>
            THEN createExecuteInitialPrompt(taskDescription)
            ELSE createExecuteFollowupPrompt(taskDescription,
                    recordHistory[Len(recordHistory)].executorSolution,
                    recordHistory[Len(recordHistory)].verifierFeedback)
    /\ \A i \in Indices(executorCalls) :
          /\ (i < Len(executorCalls) /\ AttemptFailed(i)) =>
                executorCalls[i + 1].prompt = executorCalls[i].prompt
          /\ \A solution \in Solutions :
                Occurs(solution[1], executorCalls[i].prompt) =>
                    \E k \in 1..Len(recordHistory) :
                        recordHistory[k].executorSolution = solution
          /\ \A feedback \in Feedbacks :
                Occurs(feedback[1], executorCalls[i].prompt) =>
                    \E k \in 1..Len(recordHistory) :
                        recordHistory[k].verifierFeedback = feedback
    /\ result.kind = "lastRecord" =>
          result.value = recordHistory[Len(recordHistory)].executorSolution
    /\ result.kind = "executorSolution" =>
          /\ result.value = Last(executorCalls).out
          /\ ~AttemptFailed(Len(executorCalls))

\* after one record, an attempt whose executor answered something else and
\* whose verifier failed is being retried with the same prompt
C15_Witness ==
    /\ pc = "executor"
    /\ Len(recordHistory) = 1
    /\ Len(executorCalls) = 3
    /\ executorCalls[2].state = "resolved"
    /\ executorCalls[2].out # recordHistory[1].executorSolution
    /\ AttemptFailed(2)
    /\ executorCalls[3].prompt = executorCalls[2].prompt

Pending(log) == {i \in Indices(log) : log[i].state = "pending"}

\* C16: at most one call is pending at any time; a verifier call is made
\* only in the step in which the executor call of its attempt resolves, with
\* the prompt built from what that call answered; and an attempt starts only
\* when no call is pending.
C16_OneCallAtATime ==
    /\ [](/\ Cardinality(Pending(executorCalls)) + Cardinality(Pending(verifierCalls)) <= 1
          /\ Pending(executorCalls) = IF pc = "executor" THEN {Len(executorCalls)} ELSE {}
          /\ Pending(verifierCalls) = IF pc = "verifier" THEN {Len(verifierCalls)} ELSE {}
          /\ pc = "verifier" =>
                /\ Last(executorCalls).state = "resolved"
                /\ Last(verifierCalls).prompt =
                      IF recordHistory = <<>>
                      THEN createVerifyInitialPrompt(taskDescription,
                                                     Last(executorCalls).out)
                      ELSE createVerifyFollowupPrompt(taskDescription,
                                                      Last(executorCalls).out))
    /\ [][InRun =>
            /\ Len(verifierCalls') > Len(verifierCalls) =>
                  /\ pc = "executor"
                  /\ Pending(verifierCalls) = {}
                  /\ Last(executorCalls').state = "resolved"
                  /\ Len(verifierCalls') = Len(verifierCalls) + 1
            /\ Len(executorCalls') > Len(executorCalls) =>
                  /\ pc = "while"
                  /\ Pending(executorCalls) = {}
                  /\ Pending(verifierCalls) = {}
                  /\ Len(executorCalls') = Len(executorCalls) + 1]_vars

\* the verifier is being asked about the second round's solution
C16_Witness ==
    /\ pc = "verifier"
    /\ Len(recordHistory) = 1
    /\ Pending(verifierCalls) = {Len(verifierCalls)}
    /\ Rejected(verifierCalls) # {}

\* C18: with maxAttempts = refinementRounds + 2 and refinementRounds >= 1, a
\* run in which at most two attempts fail returns what the executor answers
\* in the final round (with refinementRounds - 1 records); a run in which
\* three attempts have failed never does: it ends by leaving the loop, with
\* the last record's solution or the error.
C18_TwoFailuresTolerated ==
    (refinementRounds >= 1 /\ maxAttempts = refinementRounds + 2) =>
        /\ (Terminal /\ FailedAttempts <= 2) =>
              /\ pc = "returned"
              /\ result.kind = "executorSolution"
              /\ Len(recordHistory) = refinementRounds - 1
              /\ result.value = Last(executorCalls).out
        /\ FailedAttempts >= 3 =>
              /\ result.kind # "executorSolution"
              /\ completion.type # "return"
              /\ Terminal =>
                    /\ attempt = maxAttempts
                    /\ \/ /\ pc = "returned"
                          /\ result.value = Last(recordHistory).executorSolution
                       \/ /\ pc = "thrown"
                          /\ recordHistory = <<>>

\* a default instance that failed twice and still answered the final round
C18_Witness ==
    /\ pc = "returned"
    /\ refinementRounds = 3
    /\ maxAttempts = 5
    /\ FailedAttempts = 2
    /\ attempt = 5
    /\ result.kind = "executorSolution"

\* ------------------------------------------------------------- termination
\* a call that is awaited settles, one way or the other
ExecutorSettles == (\E solution \in Solutions : ExecutorResolves(solution)) \/ ExecutorRejects
VerifierSettles == (\E feedback \in Feedbacks : VerifierResolves(feedback)) \/ VerifierRejects

\* perform runs to its next await without being held up (one thread, no
\* yield between two awaits), and every call settles in the end
SpecLive ==
    /\ Init /\ [][Next]_vars
    /\ WF_vars(StartAttempt)
    /\ WF_vars(LeaveLoop)
    /\ WF_vars(Finally)
    /\ WF_vars(ExecutorSettles)
    /\ WF_vars(VerifierSettles)

\* what is left of a run: the attempts not yet counted, then the steps left
\* of the attempt under way
AttemptsLeft == IF maxAttempts > attempt THEN maxAttempts - attempt ELSE 0
StepsLeft ==
    CASE pc = "while" -> 3
      [] pc = "executor" -> 2
      [] pc = "verifier" -> 1
      [] OTHER -> 0
Rank == 4 * AttemptsLeft + StepsLeft

\* C19: when every call settles, every run of perform ends, returning or
\* throwing, for every configuration, refinementRounds <= 0 included: each
\* step of a run brings it nearer its end, and a state of a run in which no
\* call is pending always has a next step of perform itself.
C19_Terminates ==
    /\ InRun ~> Terminal
    /\ [][(InRun /\ InRun') => Rank' < Rank]_vars
    /\ []((InRun /\ Pending(executorCalls) = {} /\ Pending(verifierCalls) = {})
            => ENABLED (StartAttempt \/ LeaveLoop \/ Finally))

\* a run that ended after using every attempt
C19_Witness ==
    /\ Terminal
    /\ maxAttempts = 5
    /\ Len(executorCalls) = 5
    /\ FailedAttempts = 5

\* ------------------------------------------------------------ the debug flag
\* `checkmate.debug = !checkmate.debug` by the caller while perform awaits a
\* call: the field is public and perform reads it anew at every log
ToggleDebug ==
    /\ pc \in {"executor", "verifier"}
    /\ debug' = ~debug
    /\ UNCHANGED <<refinementRounds, maxAttempts, run, calls, console, builder, other>>

\* a constructed instance, its debug flag set before the run and toggled
\* during it
NextDebug ==
    \/ \E b \in BOOLEAN : SetDebug(b)
    \/ ToggleDebug
    \/ \E task \in Tasks : Perform(task)
    \/ StartAttempt
    \/ LeaveLoop
    \/ \E solution \in OneSolution : ExecutorResolves(solution)
    \/ ExecutorRejects
    \/ \E feedback \in OneFeedback : VerifierResolves(feedback)
    \/ VerifierRejects
    \/ Finally

SpecDebug == Init /\ [][NextDebug]_vars

\* where a run stands, as Replay finds it
Stands(at, history, attempts, outcome, same) ==
    [at |-> at, recordHistory |-> history, attempt |-> attempts, result |-> outcome,
     same |-> same]

\* perform as a function of the task, the two bounds and what the calls
\* answered, e and v being the calls not yet gone through; the debug flag is
\* no argument of it. `same` tells that every call was issued when and with
\* the prompt perform issues it.
RECURSIVE Replay(_, _, _, _, _, _, _)
Replay(task, rounds, limit, history, attempts, e, v) ==
    IF ~LoopCondition(history, attempts, rounds, limit)
    THEN Stands("end", history, attempts, AfterLoop(history, attempts),
                e = <<>> /\ v = <<>>)
    ELSE IF e = <<>>
    THEN Stands("while", history, attempts, NoResult, v = <<>>)
    ELSE
      LET ePrompt == ExecutorPromptFor(task, history)
          vPrompt == VerifierPromptFor(task, history, e[1].out)
          then(record) == Replay(task, rounds, limit, record, AttemptAfter(attempts),
                                 Tail(e), Tail(v))
      IN
      IF e[1].prompt # ePrompt
      THEN Stands("executor", history, attempts, NoResult, FALSE)
      ELSE IF e[1].state = "pending"
      THEN Stands("executor", history, attempts, NoResult, Len(e) = 1 /\ v = <<>>)
      ELSE IF e[1].state = "rejected"
      THEN Replay(task, rounds, limit, history, AttemptAfter(attempts), Tail(e), v)
      ELSE IF IsFinalRound(history, rounds)
      THEN Stands("returned", history, AttemptAfter(attempts),
                  [kind |-> "executorSolution", value |-> e[1].out, attempts |-> 0],
                  Len(e) = 1 /\ v = <<>>)
      ELSE IF v = <<>> \/ v[1].prompt # vPrompt
      THEN Stands("verifier", history, attempts, NoResult, FALSE)
      ELSE IF v[1].state = "pending"
      THEN Stands("verifier", history, attempts, NoResult, Len(e) = 1 /\ Len(v) = 1)
      ELSE IF v[1].state = "rejected"
      THEN then(history)
      ELSE then(Append(history, RoundRecord(ePrompt, e[1].out, vPrompt, v[1].out)))

\* the run under way, replayed from its task and the answers it got
Replayed ==
    Replay(taskDescription, refinementRounds, maxAttempts, <<>>, 0,
           executorCalls, verifierCalls)

\* C17: the debug flag is observational only. Whatever debug is, and however
\* it is toggled during the run, the run is at every moment where Replay,
\* which knows nothing of debug, puts it: two runs with the same task and the
\* same answers, differing in debug, issue the same calls with the same
\* prompts, go through the same history and attempt values and end with the
\* same result or error.
C17_DebugObservationalOnly ==
    (InRun \/ Terminal) =>
        /\ Replayed.same
        /\ recordHistory = Replayed.recordHistory
        /\ pc = "while" => Replayed.at \in {"while", "end"} /\ attempt = Replayed.attempt
        /\ pc \in {"executor", "verifier"} =>
                Replayed.at = pc /\ attempt = Replayed.attempt
        /\ pc = "finally" =>
                /\ Replayed.at \in {"while", "end", "returned"}
                /\ AttemptAfter(attempt) = Replayed.attempt
        /\ Terminal =>
                /\ Replayed.at \in {"end", "returned"}
                /\ attempt = Replayed.attempt
                /\ result = Replayed.result

\* a run ended after a failure, a recorded round and debug lines written
\* during only a part of it
C17_Witness ==
    /\ Terminal
    /\ Len(recordHistory) >= 1
    /\ FailedAttempts >= 1
    /\ console > 0
    /\ console < Len(executorCalls)

\* ------------------------------------------- two invocations under way at once
\* what the second invocation is given and what its calls answer
OtherTasks == {<<"U">>}
OtherSolutions == {<<"E3">>}
OtherFeedbacks == {<<"V3">>}

\* perform(taskDescription) is called again while the first call is under way
OtherPerform(task) ==
    /\ InRun
    /\ other.pc = "idle"
    /\ other' = FreshRun(task)
    /\ UNCHANGED <<config, run, calls, console, builder>>

OtherStartAttempt ==
    /\ other.pc = "while"
    /\ LoopCondition(other.recordHistory, other.attempt, refinementRounds, maxAttempts)
    /\ LET prompt == ExecutorPromptFor(other.taskDescription, other.recordHistory)
       IN other' = [other EXCEPT !.executorPrompt = prompt,
                                 !.executorCalls = Append(@, Call(prompt)),
                                 !.pc = "executor"]
    /\ Emit(1)
    /\ UNCHANGED <<config, run, calls, builder>>

OtherLeaveLoop ==
    /\ other.pc = "while"
    /\ ~LoopCondition(other.recordHistory, other.attempt, refinementRounds, maxAttempts)
    /\ LET outcome == AfterLoop(other.recordHistory, other.attempt)
       IN other' = [other EXCEPT !.result = outcome,
                                 !.pc = IF outcome.kind = "error" THEN "thrown"
                                        ELSE "returned"]
    /\ UNCHANGED <<config, run, calls, console, builder>>

OtherExecutorResolves(solution) ==
    /\ other.pc = "executor"
    /\ IF IsFinalRound(other.recordHistory, refinementRounds)
       THEN /\ Emit(1)
            /\ other' = [other EXCEPT
                    !.executorCalls = Settle(@, "resolved", solution),
                    !.executorSolution = solution,
                    !.completion = [type |-> "return", value |-> solution],
                    !.pc = "finally"]
       ELSE /\ Emit(2)
            /\ LET prompt == VerifierPromptFor(other.taskDescription,
                                               other.recordHistory, solution)
               IN other' = [other EXCEPT
                    !.executorCalls = Settle(@, "resolved", solution),
                    !.executorSolution = solution,
                    !.verifierPrompt = prompt,
                    !.verifierCalls = Append(@, Call(prompt)),
                    !.pc = "verifier"]
    /\ UNCHANGED <<config, run, calls, builder>>

OtherExecutorRejects ==
    /\ other.pc = "executor"
    /\ other' = [other EXCEPT !.executorCalls = Settle(@, "rejected", NoText),
                              !.pc = "finally"]
    /\ Emit(1)
    /\ UNCHANGED <<config, run, calls, builder>>

OtherVerifierResolves(feedback) ==
    /\ other.pc = "verifier"
    /\ other' = [other EXCEPT
            !.verifierCalls = Settle(@, "resolved", feedback),
            !.recordHistory = Append(@, RoundRecord(other.executorPrompt,
                                                    other.executorSolution,
                                                    other.verifierPrompt, feedback)),
            !.pc = "finally"]
    /\ Emit(1)
    /\ UNCHANGED <<config, run, calls, builder>>

OtherVerifierRejects ==
    /\ other.pc = "verifier"
    /\ other' = [other EXCEPT !.verifierCalls = Settle(@, "rejected", NoText),
                              !.pc = "finally"]
    /\ Emit(1)
    /\ UNCHANGED <<config, run, calls, builder>>

OtherFinally ==
    /\ other.pc = "finally"
    /\ other' = [other EXCEPT
            !.attempt = AttemptAfter(@),
            !.result = IF other.completion.type = "return"
                       THEN [kind |-> "executorSolution",
                             value |-> other.completion.value, attempts |-> 0]
                       ELSE @,
            !.pc = IF other.completion.type = "return" THEN "returned" ELSE "while",
            !.completion = NoCompletion,
            !.executorPrompt = NoText,
            !.executorSolution = NoText,
            !.verifierPrompt = NoText]
    /\ UNCHANGED <<config, run, calls, console, builder>>

\* the steps of the two invocations, in any order: each goes on when the call
\* it awaits settles, whatever the other one awaits
NextTwo ==
    \/ \E task \in Tasks : Perform(task)
    \/ StartAttempt
    \/ LeaveLoop
    \/ \E solution \in OneSolution : ExecutorResolves(solution)
    \/ ExecutorRejects
    \/ \E feedback \in OneFeedback : VerifierResolves(feedback)
    \/ VerifierRejects
    \/ Finally
    \/ \E task \in OtherTasks : OtherPerform(task)
    \/ OtherStartAttempt
    \/ OtherLeaveLoop
    \/ \E solution \in OtherSolutions : OtherExecutorResolves(solution)
    \/ OtherExecutorRejects
    \/ \E feedback \in OtherFeedbacks : OtherVerifierResolves(feedback)
    \/ OtherVerifierRejects
    \/ OtherFinally

\* an instance as constructed, of at most MaxOverlapRounds rounds
InitTwo == Init /\ refinementRounds <= MaxOverlapRounds

SpecTwo == InitTwo /\ [][NextTwo]_vars

\* the first invocation, as a record like the second
First ==
    [pc |-> pc, taskDescription |-> taskDescription,
     recordHistory |-> recordHistory, attempt |-> attempt,
     executorPrompt |-> executorPrompt, executorSolution |-> executorSolution,
     verifierPrompt |-> verifierPrompt,
     completion |-> completion, result |-> result,
     executorCalls |-> executorCalls, verifierCalls |-> verifierCalls]

Running(r) == r.pc \in {"while", "executor", "verifier", "finally"}
Ended(r) == r.pc \in {"returned", "thrown"}

\* invocation r stands where Replay puts it from r's own task and the answers
\* to r's own calls
OwnAnswersOnly(r) ==
    LET own == Replay(r.taskDescription, refinementRounds, maxAttempts, <<>>, 0,
                      r.executorCalls, r.verifierCalls)
    IN (Running(r) \/ Ended(r)) =>
        /\ own.same
        /\ r.recordHistory = own.recordHistory
        /\ r.pc = "while" => own.at \in {"while", "end"} /\ r.attempt = own.attempt
        /\ r.pc \in {"executor", "verifier"} => own.at = r.pc /\ r.attempt = own.attempt
        /\ r.pc = "finally" =>
                /\ own.at \in {"while", "end", "returned"}
                /\ AttemptAfter(r.attempt) = own.attempt
        /\ Ended(r) =>
                /\ own.at \in {"end", "returned"}
                /\ r.attempt = own.attempt
                /\ r.result = own.result

\* a step that starts an invocation starts it with no record and no attempt
StartsAfresh ==
    /\ (~Running(other) /\ Running(other)') =>
            (other'.recordHistory = <<>> /\ other'.attempt = 0)
    /\ (~InRun /\ InRun') =>
            (recordHistory' = <<>> /\ attempt' = 0)

\* a step of one invocation leaves the history and the attempt counter of the
\* other one as they are
LeavesTheOtherAlone ==
    /\ (other' # other) =>
            (recordHistory' = recordHistory /\ attempt' = attempt)
    /\ (First' # First) =>
            (other'.recordHistory = other.recordHistory /\ other'.attempt = other.attempt)

\* C20: the history and the attempt counter belong to one invocation. With
\* two invocations of perform on one instance under way at once, their calls
\* settling in any order, each starts with an empty history and attempt 0, and
\* the history, attempt count, prompts and result of each are those its own
\* task and the answers to its own calls give, whatever the other one does.
C20_InvocationsPrivate ==
    /\ [](OwnAnswersOnly(First) /\ OwnAnswersOnly(other))
    /\ [][StartsAfresh /\ LeavesTheOtherAlone]_vars

\* both invocations are in their second round, on different attempts, the
\* second having started after the first had recorded a round
C20_Witness ==
    /\ pc = "executor"
    /\ other.pc = "executor"
    /\ Len(recordHistory) = 1
    /\ Len(other.recordHistory) = 1
    /\ attempt > other.attempt

\* --------------------------------------------------- the prompt builders alone
\* Text a caller or a model may supply: free text, a fence, and the text a
\* template puts between two embedded inputs.
BetweenTaskAndPrevious == Close \o <<"Your previous solution was: ">> \o Open
BetweenPreviousAndFeedback ==
    Close \o <<"The verifier's feedback on your previous solution was: ">> \o Open
BetweenTaskAndProvided == Close \o <<"The provided solution is: ">> \o Open
BetweenTaskAndUpdated == Close \o <<"The updated solution is: ">> \o Open

Pieces ==
    {<<"a">>, <<"b">>, <<Fence>>,
     BetweenTaskAndPrevious, BetweenPreviousAndFeedback,
     BetweenTaskAndProvided, BetweenTaskAndUpdated}

Fields == {"taskDescription", "executorSolution", "verifierFeedback"}
Builders == {"createExecuteInitialPrompt", "createExecuteFollowupPrompt",
             "createVerifyInitialPrompt", "createVerifyFollowupPrompt"}

\* the parameters each builder takes
ParametersOf(builder_) ==
    CASE builder_ = "createExecuteInitialPrompt" -> {"taskDescription"}
      [] builder_ = "createExecuteFollowupPrompt" -> Fields
      [] OTHER -> {"taskDescription", "executorSolution"}

\* the builder called on its parameters
Build(builder_, args) ==
    CASE builder_ = "createExecuteInitialPrompt" ->
            createExecuteInitialPrompt(args.taskDescription)
      [] builder_ = "createExecuteFollowupPrompt" ->
            createExecuteFollowupPrompt(args.taskDescription, args.executorSolution,
                                        args.verifierFeedback)
      [] builder_ = "createVerifyInitialPrompt" ->
            createVerifyInitialPrompt(args.taskDescription, args.executorSolution)
      [] OTHER ->
            createVerifyFollowupPrompt(args.taskDescription, args.executorSolution)

\* one more piece of text at the end of an input of the first tuple
ExtendA(field, piece) ==
    /\ op = "none"
    /\ pieces < MaxPieces
    /\ argsA' = [argsA EXCEPT ![field] = @ \o piece]
    /\ pieces' = pieces + 1
    /\ UNCHANGED <<config, run, calls, console, other, op, argsB, promptA, promptB>>

\* one more piece of text at the end of an input of the second tuple
ExtendB(field, piece) ==
    /\ op = "none"
    /\ pieces < MaxPieces
    /\ argsB' = [argsB EXCEPT ![field] = @ \o piece]
    /\ pieces' = pieces + 1
    /\ UNCHANGED <<config, run, calls, console, other, op, argsA, promptA, promptB>>

\* the same builder renders both tuples
Render(builder_) ==
    /\ op = "none"
    /\ op' = builder_
    /\ promptA' = Build(builder_, argsA)
    /\ promptB' = Build(builder_, argsB)
    /\ UNCHANGED <<config, run, calls, console, other, argsA, argsB, pieces>>

NextPrompt ==
    \/ \E field \in Fields, piece \in Pieces : ExtendA(field, piece)
    \/ \E field \in Fields, piece \in Pieces : ExtendB(field, piece)
    \/ \E builder_ \in Builders : Render(builder_)

SpecPrompt == Init /\ [][NextPrompt]_vars

\* C9: each builder embeds its inputs so that they can be recovered from the
\* prompt: two tuples of inputs that render to the same prompt are the same
\* tuple (on the parameters the builder takes).
C9_InputsRecoverable ==
    (op # "none" /\ promptA = promptB) =>
        \A field \in ParametersOf(op) : argsA[field] = argsB[field]

====
